---- MODULE Spec2Model ----
(***************************************************************************)
(* Model of the scheduling conflict engine and the session check-in        *)
(* lifecycle of Calendar-Scheduler (src/agents/tools/conflict_detector.py, *)
(* src/agents/tools/schedule_writer.py, src/db/queries.py,                 *)
(* src/app/pages/7_Daily_Checkin.py).                                      *)
(*                                                                         *)
(* Representation.                                                         *)
(*   - A calendar date is a day number; day 0 is a Monday, so the weekday  *)
(*     of date d (date.weekday(), 0 = Monday) is d % 7.  ISO date strings  *)
(*     compare like the day numbers they denote.                           *)
(*   - A time string "HH:MM" is the tuple <<h, m>>; the store hands a time *)
(*     column back as "HH:MM:SS", the tuple <<h, m, s>>.                   *)
(*   - A datetime.time is its minute of the day (times carry no seconds    *)
(*     in any value the program builds).                                   *)
(*   - A timestamp is abstracted to the fact that it is set.               *)
(*   - A table is a sequence of rows; the id of a row is its index, so a   *)
(*     freshly inserted row gets an id no earlier row ever had.            *)
(***************************************************************************)
EXTENDS Integers, Sequences, FiniteSets, TLC

\* ---------------------------------------------------------------- bounds
\* last day the clock is advanced to
MaxDay == 3
\* the operations that append to checkin_log are disabled once the log
\* holds this many entries
MaxLog == 3
\* check-ins are disabled once the log holds this many check_in entries
MaxCheckIns == 1
\* proposals are disabled once there are this many schedules
MaxSchedules == 2
\* the longest duration_weeks a schedule is proposed with
MaxWeeks == 2

\* ------------------------------------------------------ program constants
NULL == -1
\* datetime.now(timezone.utc).isoformat(): some timestamp
Now == 1
DaysAhead == 7
MaxCandidates == 5
UnknownRank == 9

Students == {"emma", "liam"}
NoStudent == "none"
Preferences == {"preferred", "available", "avoid"}
Statuses == {"pending", "completed", "missed", "rescheduled", "cancelled"}

\* the wall-clock times the model draws inputs from ("HH:MM")
TimeStrings == {<<9, 0>>, <<9, 30>>, <<10, 0>>, <<10, 30>>, <<11, 0>>}

VARIABLES
    today,              \* date.today()
    schedules,          \* table schedules
    schedule_slots,     \* table schedule_slots
    availability,       \* table availability
    session_instances,  \* table session_instances
    checkin_log,        \* table checkin_log
    last                \* the last operation run, its arguments and result

vars == <<today, schedules, schedule_slots, availability,
          session_instances, checkin_log, last>>

\* -------------------------------------------------------------- helpers
Range(s) == {s[i] : i \in 1..Len(s)}

Weekday(d) == d % 7

\* what the store returns for a time column written as "HH:MM"
DbTime(t) == <<t[1], t[2], 0>>

\* str(t)[:5]
Trunc5(t) == <<t[1], t[2]>>

\* int(s[:2]) * 60 + int(s[3:5])
ToMinutes(t) == t[1] * 60 + t[2]

\* f"{m // 60:02d}:{m % 60:02d}"
FormatMinutes(m) == <<m \div 60, m % 60>>

\* Stable insertion sort of seq by ascending key[x] (list.sort with a key,
\* and the store's ORDER BY on rows that are kept in insertion order).
RECURSIVE InsertSorted(_, _, _)
InsertSorted(x, seq, key) ==
    IF seq = <<>> THEN <<x>>
    ELSE IF key[seq[Len(seq)]] <= key[x] THEN Append(seq, x)
    ELSE Append(InsertSorted(x, SubSeq(seq, 1, Len(seq) - 1), key), seq[Len(seq)])

RECURSIVE StableSort(_, _)
StableSort(seq, key) ==
    IF seq = <<>> THEN <<>>
    ELSE InsertSorted(seq[Len(seq)], StableSort(SubSeq(seq, 1, Len(seq) - 1), key), key)

\* the ids of a table as a sequence 1..n
Ids(table) == [i \in 1..Len(table) |-> i]

RECURSIVE FlattenSeq(_)
FlattenSeq(ss) ==
    IF ss = <<>> THEN <<>> ELSE Head(ss) \o FlattenSeq(Tail(ss))

\* ------------------------------------------------ conflict_detector.py
_parse_time(t) == t[1] * 60 + t[2]

\* mutant: a range that is empty or inverted overlaps nothing
_times_overlap_wellformed(s1, e1, s2, e2) == s1 < e1 /\ s2 < e2 /\ s1 < e2 /\ s2 < e1

\* mutant: closed intervals, so that back-to-back slots collide
_times_overlap_closed(s1, e1, s2, e2) == s1 <= e2 /\ s2 <= e1

_times_overlap(s1, e1, s2, e2) == s1 < e2 /\ s2 < e1

\* ------------------------------------------------------- db/queries.py
\* the sort key of ORDER BY day_of_week, start_time
DayThenStart(row) == row.day_of_week * 1440 + _parse_time(row.start_time)

\* ids of the student's availability rows, ordered by day_of_week, start_time
get_student_availability(student_id) ==
    LET mine == SelectSeq(Ids(availability),
                          LAMBDA i : availability[i].student_id = student_id)
    IN StableSort(mine, [i \in 1..Len(availability) |-> DayThenStart(availability[i])])

\* ids of the student's schedules with the given status, ordered by start_date
get_student_schedules(student_id, status) ==
    LET mine == SelectSeq(Ids(schedules),
                          LAMBDA i : /\ schedules[i].student_id = student_id
                                     /\ schedules[i].status = status)
    IN StableSort(mine, [i \in 1..Len(schedules) |-> schedules[i].start_date])

\* ids of the schedule's slots, ordered by day_of_week, start_time
get_schedule_slots(schedule_id) ==
    LET mine == SelectSeq(Ids(schedule_slots),
                          LAMBDA i : schedule_slots[i].schedule_id = schedule_id)
    IN StableSort(mine, [i \in 1..Len(schedule_slots) |-> DayThenStart(schedule_slots[i])])

\* ids of all slots of the student's active schedules
get_student_all_slots(student_id) ==
    LET schs == get_student_schedules(student_id, "active")
    IN FlattenSeq([k \in 1..Len(schs) |-> get_schedule_slots(schs[k])])

\* ------------------------------------------------ conflict_detector.py
RECURSIVE FirstOverlapping(_, _, _)
\* mutant: a window that merely overlaps the proposal counts as containing it
FirstOverlapping(day_avail, proposed_s, proposed_e) ==
    IF day_avail = <<>> THEN NULL
    ELSE LET a == availability[Head(day_avail)]
         IN IF /\ _parse_time(a.start_time) < proposed_e
               /\ proposed_s < _parse_time(a.end_time)
            THEN Head(day_avail)
            ELSE FirstOverlapping(Tail(day_avail), proposed_s, proposed_e)

RECURSIVE FirstContaining(_, _, _)
\* the loop of lines 65-71: the first window of day_avail that contains
\* [proposed_s, proposed_e], NULL when there is none
FirstContaining(day_avail, proposed_s, proposed_e) ==
    IF day_avail = <<>> THEN NULL
    ELSE LET a == availability[Head(day_avail)]
         IN IF /\ _parse_time(a.start_time) <= proposed_s
               /\ proposed_e <= _parse_time(a.end_time)
            THEN Head(day_avail)
            ELSE FirstContaining(Tail(day_avail), proposed_s, proposed_e)

\* mutant: the avoid test runs before the conflict test
VerdictAvoidFirst(conflicts, is_within_availability, preference) ==
    IF is_within_availability /\ preference = "avoid" THEN "MAYBE"
    ELSE IF conflicts # <<>> THEN "NO"
    ELSE IF ~is_within_availability THEN "NO"
    ELSE "YES"

Verdict(conflicts, is_within_availability, preference) ==
    IF conflicts # <<>> THEN "NO"
    ELSE IF ~is_within_availability THEN "NO"
    ELSE IF preference = "avoid" THEN "MAYBE"
    ELSE IF preference = "preferred" THEN "YES"
    ELSE "YES"

detect_conflicts(student_id, proposed_day, proposed_start, proposed_end) ==
    LET proposed_s == _parse_time(proposed_start)
        proposed_e == _parse_time(proposed_end)
        existing_slots == get_student_all_slots(student_id)
        conflicts == SelectSeq(existing_slots,
            LAMBDA i : /\ schedule_slots[i].day_of_week = proposed_day
                       /\ _times_overlap(proposed_s, proposed_e,
                                         _parse_time(schedule_slots[i].start_time),
                                         _parse_time(schedule_slots[i].end_time)))
        avail_slots == get_student_availability(student_id)
        day_avail == SelectSeq(avail_slots,
            LAMBDA i : availability[i].day_of_week = proposed_day)
        hit == FirstContaining(day_avail, proposed_s, proposed_e)
        is_within_availability == hit # NULL
        preference == IF hit = NULL THEN "unavailable"
                      ELSE availability[hit].preference
    IN [verdict |-> Verdict(conflicts, is_within_availability, preference),
        conflicts |-> conflicts,
        within_availability |-> is_within_availability,
        preference |-> preference]

\* ------------------------------------------- db/queries.py, sessions
\* the student that owns the schedule of instance id of table db
OwnerOf(db, id) == schedules[db[id].schedule_id].student_id

\* the row of db with the key (schedule_slot_id, session_date), NULL if none
RowWithKey(db, slot_id, d) ==
    IF \E i \in 1..Len(db) : db[i].schedule_slot_id = slot_id /\ db[i].session_date = d
    THEN CHOOSE i \in 1..Len(db) : db[i].schedule_slot_id = slot_id /\ db[i].session_date = d
    ELSE NULL

NewInstance(schedule_id, slot_id, d, start_time, end_time, from) ==
    [schedule_id |-> schedule_id, schedule_slot_id |-> slot_id,
     session_date |-> d, start_time |-> DbTime(start_time),
     end_time |-> DbTime(end_time), status |-> "pending",
     checked_in_at |-> NULL, rescheduled_from |-> from, rescheduled_to |-> NULL]

RECURSIVE WalkWeeksFromMonday(_, _, _, _, _)
\* mutant: the walk keeps the dates of the first week that lie before
\* start_date
WalkWeeksFromMonday(schedule_id, slot_id, current, start_date, end_date) ==
    IF current > end_date THEN <<>>
    ELSE <<[schedule_id |-> schedule_id, schedule_slot_id |-> slot_id,
            session_date |-> current,
            start_time |-> Trunc5(schedule_slots[slot_id].start_time),
            end_time |-> Trunc5(schedule_slots[slot_id].end_time),
            status |-> "pending"]>>
         \o WalkWeeksFromMonday(schedule_id, slot_id, current + 7, start_date, end_date)

RECURSIVE WalkWeeks(_, _, _, _, _)
\* the while loop of lines 242-253 for one slot
WalkWeeks(schedule_id, slot_id, current, start_date, end_date) ==
    IF current > end_date THEN <<>>
    ELSE (IF current >= start_date
          THEN <<[schedule_id |-> schedule_id, schedule_slot_id |-> slot_id,
                  session_date |-> current,
                  start_time |-> Trunc5(schedule_slots[slot_id].start_time),
                  end_time |-> Trunc5(schedule_slots[slot_id].end_time),
                  status |-> "pending"]>>
          ELSE <<>>)
         \o WalkWeeks(schedule_id, slot_id, current + 7, start_date, end_date)

\* the rows generate_session_instances hands to the upsert (lines 236-253)
ExpandSlots(schedule_id, start_date, end_date) ==
    LET slots == get_schedule_slots(schedule_id)
        week_start == start_date - Weekday(start_date)
    IN FlattenSeq([k \in 1..Len(slots) |->
          WalkWeeks(schedule_id, slots[k],
                    week_start + schedule_slots[slots[k]].day_of_week,
                    start_date, end_date)])

\* mutant: a plain insert, the key is not looked up
UpsertRowInsertOnly(db, row) ==
    Append(db, NewInstance(row.schedule_id, row.schedule_slot_id,
                           row.session_date, row.start_time, row.end_time, NULL))

\* upsert(..., on_conflict="schedule_slot_id,session_date") of one row: a row
\* with the same key takes over the columns that were passed, the others
\* stay; otherwise the row is inserted.
UpsertRow(db, row) ==
    LET hit == RowWithKey(db, row.schedule_slot_id, row.session_date)
    IN IF hit # NULL
       THEN [db EXCEPT ![hit].schedule_id = row.schedule_id,
                       ![hit].start_time = DbTime(row.start_time),
                       ![hit].end_time = DbTime(row.end_time),
                       ![hit].status = row.status]
       ELSE Append(db, NewInstance(row.schedule_id, row.schedule_slot_id,
                                   row.session_date, row.start_time,
                                   row.end_time, NULL))

RECURSIVE Upsert(_, _)
Upsert(db, rows) ==
    IF rows = <<>> THEN db ELSE Upsert(UpsertRow(db, Head(rows)), Tail(rows))

\* result of generate_session_instances: the table afterwards and the ids of
\* the rows the upsert returned
generate_session_instances(db, schedule_id, start_date, end_date) ==
    LET all_instances == ExpandSlots(schedule_id, start_date, end_date)
        after == Upsert(db, all_instances)
    IN [db |-> after,
        data |-> [k \in 1..Len(all_instances) |->
                    RowWithKey(after, all_instances[k].schedule_slot_id,
                               all_instances[k].session_date)]]

\* ids of the instances of the student's active schedules dated in
\* [start_date, end_date] (any status)
get_sessions_for_range(db, student_id, start_date, end_date) ==
    LET schs == get_student_schedules(student_id, "active")
        key == [i \in 1..Len(db) |-> db[i].session_date * 1440 + _parse_time(db[i].start_time)]
        OfSchedule(sch) ==
            StableSort(SelectSeq(Ids(db),
                          LAMBDA i : /\ db[i].schedule_id = sch
                                     /\ db[i].session_date >= start_date
                                     /\ db[i].session_date <= end_date), key)
    IN FlattenSeq([k \in 1..Len(schs) |-> OfSchedule(schs[k])])

\* ids of the student's missed instances with no replacement yet
get_unresolved_missed(db, student_id) ==
    LET schs == get_student_schedules(student_id, "active")
        key == [i \in 1..Len(db) |-> db[i].session_date]
        OfSchedule(sch) ==
            StableSort(SelectSeq(Ids(db),
                          LAMBDA i : /\ db[i].schedule_id = sch
                                     /\ db[i].status = "missed"
                                     /\ db[i].rescheduled_to = NULL), key)
    IN FlattenSeq([k \in 1..Len(schs) |-> OfSchedule(schs[k])])

PrefRank(preference) ==
    CASE preference = "preferred" -> 0
      [] preference = "available" -> 1
      [] preference = "avoid" -> 2
      [] OTHER -> UnknownRank

\* mutant: only sessions that are still pending block a placement
CandidatesOnDatePendingOnly(db, windows, day_existing, current, duration_min) ==
    LET Fits(w) ==
            LET w_s_min == ToMinutes(Trunc5(availability[w].start_time))
                w_e_min == ToMinutes(Trunc5(availability[w].end_time))
                candidate_end == w_s_min + duration_min
                conflict == \E k \in 1..Len(day_existing) :
                    LET ex == db[day_existing[k]]
                    IN /\ ex.status = "pending"
                       /\ w_s_min < ToMinutes(Trunc5(ex.end_time))
                       /\ ToMinutes(Trunc5(ex.start_time)) < candidate_end
            IN ~(w_e_min - w_s_min < duration_min) /\ ~conflict
        Candidate(w) ==
            LET w_s_min == ToMinutes(Trunc5(availability[w].start_time))
            IN [date |-> current,
                start_time |-> FormatMinutes(w_s_min),
                end_time |-> FormatMinutes(w_s_min + duration_min),
                preference |-> availability[w].preference]
        fitting == SelectSeq(windows, Fits)
    IN [k \in 1..Len(fitting) |-> Candidate(fitting[k])]

\* lines 544-576: the candidates one date contributes, window by window
CandidatesOnDate(db, windows, day_existing, current, duration_min) ==
    LET Fits(w) ==
            LET w_s_min == ToMinutes(Trunc5(availability[w].start_time))
                w_e_min == ToMinutes(Trunc5(availability[w].end_time))
                candidate_start == w_s_min
                candidate_end == candidate_start + duration_min
                conflict == \E k \in 1..Len(day_existing) :
                    LET ex == db[day_existing[k]]
                    IN /\ candidate_start < ToMinutes(Trunc5(ex.end_time))
                       /\ ToMinutes(Trunc5(ex.start_time)) < candidate_end
            IN /\ ~(w_e_min - w_s_min < duration_min)
               /\ ~conflict
               /\ candidate_end <= w_e_min
        Candidate(w) ==
            LET w_s_min == ToMinutes(Trunc5(availability[w].start_time))
            IN [date |-> current,
                start_time |-> FormatMinutes(w_s_min),
                end_time |-> FormatMinutes(w_s_min + duration_min),
                preference |-> availability[w].preference]
        fitting == SelectSeq(windows, Fits)
    IN [k \in 1..Len(fitting) |-> Candidate(fitting[k])]

\* all accepted candidates in the order the walk over the dates finds them
AcceptedCandidates(db, student_id, missed_session_id, days_ahead) ==
    LET missed == db[missed_session_id]
        duration_min == ToMinutes(Trunc5(missed.end_time)) - ToMinutes(Trunc5(missed.start_time))
        tomorrow == today + 1
        end_search == today + days_ahead
        avail == get_student_availability(student_id)
        existing == get_sessions_for_range(db, student_id, tomorrow, end_search)
        OnDate(current) ==
            CandidatesOnDate(db,
                SelectSeq(avail, LAMBDA w : availability[w].day_of_week = Weekday(current)),
                SelectSeq(existing, LAMBDA e : db[e].session_date = current),
                current, duration_min)
    IN FlattenSeq([k \in 1..days_ahead |-> OnDate(today + k)])

\* mutant: the earliest date first, whatever the preference
SortCandidatesByDate(candidates) ==
    StableSort(candidates, [c \in Range(candidates) |-> c.date])

SortCandidates(candidates) ==
    StableSort(candidates,
               [c \in Range(candidates) |-> PrefRank(c.preference) * 100000 + c.date])

find_available_reschedule_slots(db, student_id, missed_session_id, days_ahead) ==
    IF missed_session_id \notin 1..Len(db) THEN <<>>
    ELSE LET sorted == SortCandidates(
                 AcceptedCandidates(db, student_id, missed_session_id, days_ahead))
         IN SubSeq(sorted, 1, IF Len(sorted) < MaxCandidates THEN Len(sorted) ELSE MaxCandidates)

LogEntry(session_id, action, performed_by, auto, new_date) ==
    [session_instance_id |-> session_id, action |-> action,
     performed_by |-> performed_by, auto |-> auto, new_date |-> new_date]

\* mutant: the replacement keeps the times of the missed session instead of
\* taking the ones it was given
ReplacementKeepsTimes(db, missed_session_id, new_date, new_start, new_end) ==
    NewInstance(db[missed_session_id].schedule_id,
                db[missed_session_id].schedule_slot_id,
                new_date, db[missed_session_id].start_time,
                db[missed_session_id].end_time, missed_session_id)

\* the row reschedule_session inserts (lines 602-610)
ReplacementOf(db, missed_session_id, new_date, new_start, new_end) ==
    NewInstance(db[missed_session_id].schedule_id,
                db[missed_session_id].schedule_slot_id,
                new_date, new_start, new_end, missed_session_id)

\* mutant: the forward link is written on the replacement as well
LinkBoth(db, missed_session_id, new_id) ==
    [db EXCEPT ![missed_session_id].status = "rescheduled",
               ![missed_session_id].rescheduled_to = new_id,
               ![new_id].rescheduled_to = missed_session_id]

\* mutant: the forward link names the missed instance itself
LinkSelf(db, missed_session_id, new_id) ==
    [db EXCEPT ![missed_session_id].status = "rescheduled",
               ![missed_session_id].rescheduled_to = missed_session_id]

\* the update of lines 613-616
LinkMissed(db, missed_session_id, new_id) ==
    [db EXCEPT ![missed_session_id].status = "rescheduled",
               ![missed_session_id].rescheduled_to = new_id]

\* mutant: no test that the missed session exists; the log entry is written
\* all the same
reschedule_session_unchecked(db, log, missed_session_id, new_date, new_start, new_end) ==
    IF missed_session_id \notin 1..Len(db)
    THEN [outcome |-> "error", db |-> db,
          log |-> Append(log, LogEntry(missed_session_id, "reschedule",
                                       "parent", FALSE, new_date)),
          id |-> NULL]
    ELSE IF RowWithKey(db, db[missed_session_id].schedule_slot_id, new_date) # NULL
    THEN [outcome |-> "raised", db |-> db, log |-> log, id |-> NULL]
    ELSE LET new_id == Len(db) + 1
             inserted == Append(db, ReplacementOf(db, missed_session_id,
                                                  new_date, new_start, new_end))
         IN [outcome |-> "ok",
             db |-> LinkMissed(inserted, missed_session_id, new_id),
             log |-> Append(log, LogEntry(missed_session_id, "reschedule",
                                          "parent", FALSE, new_date)),
             id |-> new_id]

\* reschedule_session: outcome "error" is the returned error dict, "raised"
\* the exception of an insert that breaks the uniqueness of
\* (schedule_slot_id, session_date), "ok" the normal return
reschedule_session(db, log, missed_session_id, new_date, new_start, new_end) ==
    IF missed_session_id \notin 1..Len(db)
    THEN [outcome |-> "error", db |-> db, log |-> log, id |-> NULL]
    ELSE IF RowWithKey(db, db[missed_session_id].schedule_slot_id, new_date) # NULL
    THEN [outcome |-> "raised", db |-> db, log |-> log, id |-> NULL]
    ELSE LET new_id == Len(db) + 1
             inserted == Append(db, ReplacementOf(db, missed_session_id,
                                                  new_date, new_start, new_end))
         IN [outcome |-> "ok",
             db |-> LinkMissed(inserted, missed_session_id, new_id),
             log |-> Append(log, LogEntry(missed_session_id, "reschedule",
                                          "parent", FALSE, new_date)),
             id |-> new_id]

\* mutant: the finder is given the sessions as they were read when the sweep
\* started, without the replacements installed since
SweepOneStaleRead(st, id, student_id, auto_reschedule) ==
    LET db1 == [st.db EXCEPT ![id].status = "missed"]
        log1 == Append(st.log, LogEntry(id, "auto_miss", "system", FALSE, NULL))
        missed1 == Append(st.missed, id)
        invoked == auto_reschedule /\ student_id # NoStudent
        candidates == IF invoked
                      THEN find_available_reschedule_slots(session_instances,
                                                           student_id, id, DaysAhead)
                      ELSE <<>>
        best == candidates[1]
        r == reschedule_session(db1, log1, id, best.date, best.start_time, best.end_time)
    IN IF invoked /\ candidates # <<>> /\ r.outcome = "ok"
       THEN [db |-> r.db,
             log |-> Append(r.log, LogEntry(id, "reschedule", "system", TRUE, best.date)),
             missed |-> missed1,
             rescheduled |-> Append(st.rescheduled,
                 [missed_session |-> id, new_date |-> best.date,
                  new_start |-> best.start_time, new_end |-> best.end_time,
                  new_session_id |-> r.id]),
             steps |-> Append(st.steps, [session |-> id, candidates |-> candidates,
                                         outcome |-> "ok"])]
       ELSE [db |-> db1, log |-> log1, missed |-> missed1,
             rescheduled |-> st.rescheduled,
             steps |-> Append(st.steps,
                 [session |-> id, candidates |-> candidates,
                  outcome |-> IF invoked /\ candidates # <<>> THEN r.outcome ELSE "none"])]

\* one pass of the for loop of mark_missed_sessions (lines 408-453) over
\* the selected instance id; st carries the table, the log and the result
\* lists built so far
SweepOne(st, id, student_id, auto_reschedule) ==
    LET db1 == [st.db EXCEPT ![id].status = "missed"]
        log1 == Append(st.log, LogEntry(id, "auto_miss", "system", FALSE, NULL))
        missed1 == Append(st.missed, id)
        invoked == auto_reschedule /\ student_id # NoStudent
        candidates == IF invoked
                      THEN find_available_reschedule_slots(db1, student_id, id, DaysAhead)
                      ELSE <<>>
        best == candidates[1]
        r == reschedule_session(db1, log1, id, best.date, best.start_time, best.end_time)
    IN IF invoked /\ candidates # <<>> /\ r.outcome = "ok"
       THEN [db |-> r.db,
             log |-> Append(r.log, LogEntry(id, "reschedule", "system", TRUE, best.date)),
             missed |-> missed1,
             rescheduled |-> Append(st.rescheduled,
                 [missed_session |-> id, new_date |-> best.date,
                  new_start |-> best.start_time, new_end |-> best.end_time,
                  new_session_id |-> r.id]),
             steps |-> Append(st.steps, [session |-> id, candidates |-> candidates,
                                         outcome |-> "ok"])]
       ELSE [db |-> db1, log |-> log1, missed |-> missed1,
             rescheduled |-> st.rescheduled,
             steps |-> Append(st.steps,
                 [session |-> id, candidates |-> candidates,
                  outcome |-> IF invoked /\ candidates # <<>> THEN r.outcome ELSE "none"])]

RECURSIVE SweepLoop(_, _, _, _)
SweepLoop(st, pending_past, student_id, auto_reschedule) ==
    IF pending_past = <<>> THEN st
    ELSE SweepLoop(SweepOne(st, Head(pending_past), student_id, auto_reschedule),
                   Tail(pending_past), student_id, auto_reschedule)

\* mutant: the query does not ask for status pending
PendingPastAnyStatus(db, student_id) ==
    {i \in 1..Len(db) :
        /\ db[i].session_date < today
        /\ (student_id # NoStudent =>
              db[i].schedule_id \in Range(get_student_schedules(student_id, "active")))}

\* mutant: the query takes today's sessions too
PendingUpToToday(db, student_id) ==
    {i \in 1..Len(db) :
        /\ db[i].status = "pending"
        /\ db[i].session_date <= today
        /\ (student_id # NoStudent =>
              db[i].schedule_id \in Range(get_student_schedules(student_id, "active")))}

\* the instances the query of lines 389-404 selects
PendingPast(db, student_id) ==
    {i \in 1..Len(db) :
        /\ db[i].status = "pending"
        /\ db[i].session_date < today
        /\ (student_id # NoStudent =>
              db[i].schedule_id \in Range(get_student_schedules(student_id, "active")))}

\* the orders in which the store may return the rows of an unordered query
Orders(S) == {o \in [1..Cardinality(S) -> S] : Range(o) = S}

\* ------------------------------------------------------------- actions
\* the clock moves on to the next day
Tick ==
    /\ today < MaxDay
    /\ today' = today + 1
    /\ last' = [op |-> "clock"]
    /\ UNCHANGED <<schedules, schedule_slots, availability, session_instances, checkin_log>>

\* schedule_writer.confirm_schedule
ConfirmSchedule(schedule_id) ==
    LET g == generate_session_instances(session_instances, schedule_id,
                                        schedules[schedule_id].start_date,
                                        schedules[schedule_id].end_date)
    IN /\ schedules' = [schedules EXCEPT ![schedule_id].status = "active"]
       /\ session_instances' = g.db
       /\ last' = [op |-> "confirm_schedule", schedule_id |-> schedule_id,
                   data |-> g.data]
       /\ UNCHANGED <<today, schedule_slots, availability, checkin_log>>

\* queries.check_in_session, reached from the check-in button and from
\* checkin_tools.agent_check_in_session with whatever id the caller passes
CheckIn(session_id) ==
    /\ Len(checkin_log) < MaxLog
    /\ Cardinality({k \in 1..Len(checkin_log) : checkin_log[k].action = "check_in"})
          < MaxCheckIns
    /\ session_instances' = [session_instances EXCEPT
                               ![session_id].status = "completed",
                               ![session_id].checked_in_at = Now]
    /\ checkin_log' = Append(checkin_log,
                             LogEntry(session_id, "check_in", "parent", FALSE, NULL))
    /\ last' = [op |-> "check_in_session", session_id |-> session_id]
    /\ UNCHANGED <<today, schedules, schedule_slots, availability>>

\* queries.mark_missed_sessions
MarkMissed(student_id, auto_reschedule) ==
    /\ Len(checkin_log) < MaxLog
    /\ IF student_id # NoStudent /\ get_student_schedules(student_id, "active") = <<>>
       THEN /\ last' = [op |-> "mark_missed_sessions", student_id |-> student_id,
                        auto_reschedule |-> auto_reschedule, selected |-> {},
                        missed |-> <<>>, rescheduled |-> <<>>, steps |-> <<>>]
            /\ UNCHANGED <<session_instances, checkin_log>>
       ELSE \E pending_past \in Orders(PendingPast(session_instances, student_id)) :
              LET st == SweepLoop([db |-> session_instances, log |-> checkin_log,
                                   missed |-> <<>>, rescheduled |-> <<>>,
                                   steps |-> <<>>],
                                  pending_past, student_id, auto_reschedule)
              IN /\ session_instances' = st.db
                 /\ checkin_log' = st.log
                 /\ last' = [op |-> "mark_missed_sessions", student_id |-> student_id,
                             auto_reschedule |-> auto_reschedule,
                             selected |-> Range(pending_past),
                             missed |-> st.missed, rescheduled |-> st.rescheduled,
                             steps |-> st.steps]
    /\ UNCHANGED <<today, schedules, schedule_slots, availability>>

\* 7_Daily_Checkin.py, lines 186-213: the parent picks the j-th suggestion
\* for the unresolved missed session m
ManualReschedule(student_id, m, j) ==
    LET candidates == find_available_reschedule_slots(session_instances, student_id,
                                                      m, DaysAhead)
        c == candidates[j]
        r == reschedule_session(session_instances, checkin_log, m,
                                c.date, c.start_time, c.end_time)
    IN /\ Len(checkin_log) < MaxLog
       /\ m \in Range(get_unresolved_missed(session_instances, student_id))
       /\ j \in 1..Len(candidates)
       /\ session_instances' = r.db
       /\ checkin_log' = r.log
       /\ last' = [op |-> "reschedule_session", missed_session_id |-> m,
                   new_date |-> c.date, new_start |-> c.start_time,
                   new_end |-> c.end_time, outcome |-> r.outcome, id |-> r.id]
       /\ UNCHANGED <<today, schedules, schedule_slots, availability>>

\* 7_Daily_Checkin.py, lines 217-223: "Skip (don't reschedule)"
Skip(student_id, m) ==
    /\ m \in Range(get_unresolved_missed(session_instances, student_id))
    /\ session_instances' = [session_instances EXCEPT ![m].status = "cancelled"]
    /\ last' = [op |-> "skip", session_id |-> m]
    /\ UNCHANGED <<today, schedules, schedule_slots, availability, checkin_log>>

\* conflict_detector.detect_conflicts, a query
DetectConflicts(student_id, proposed_day, proposed_start, proposed_end) ==
    /\ last' = [op |-> "detect_conflicts", student_id |-> student_id,
                proposed_day |-> proposed_day, proposed_start |-> proposed_start,
                proposed_end |-> proposed_end,
                result |-> detect_conflicts(student_id, proposed_day,
                                            proposed_start, proposed_end)]
    /\ UNCHANGED <<today, schedules, schedule_slots, availability,
                   session_instances, checkin_log>>

\* ------------------------------------------------------ initial states
Window(student_id, day_of_week, start_time, end_time, preference) ==
    [student_id |-> student_id, day_of_week |-> day_of_week,
     start_time |-> DbTime(start_time), end_time |-> DbTime(end_time),
     preference |-> preference]

Slot(schedule_id, day_of_week, start_time, end_time) ==
    [schedule_id |-> schedule_id, day_of_week |-> day_of_week,
     start_time |-> DbTime(start_time), end_time |-> DbTime(end_time)]

\* a schedule that starts on the Monday of day 0 and, as seed_data and
\* propose_schedule compute it, ends a whole number of weeks later (one here)
Schedule(student_id, status) ==
    [student_id |-> student_id, status |-> status,
     start_date |-> 0, end_date |-> 7]

\* seed_data.seed_supabase: two students, their availability and one active
\* schedule each
SeededAvailability ==
    <<Window("emma", 0, <<9, 0>>, <<11, 0>>, "available"),
      Window("emma", 2, <<9, 0>>, <<10, 0>>, "preferred"),
      Window("liam", 3, <<9, 0>>, <<10, 0>>, "available")>>

SeededSlots ==
    <<Slot(1, 0, <<10, 0>>, <<11, 0>>),
      Slot(1, 1, <<10, 0>>, <<11, 0>>),
      Slot(2, 1, <<9, 0>>, <<10, 0>>)>>

\* the seeded store after both schedules were confirmed once, on the Monday
\* they start
Init ==
    /\ today = 0
    /\ schedules = <<Schedule("emma", "active"), Schedule("liam", "active")>>
    /\ schedule_slots = SeededSlots
    /\ availability = SeededAvailability
    /\ session_instances =
          generate_session_instances(
              generate_session_instances(<<>>, 1, 0, 7).db, 2, 0, 7).db
    /\ checkin_log = <<>>
    /\ last = [op |-> "init"]

Next ==
    \/ Tick
    \/ \E schedule_id \in 1..Len(schedules) : ConfirmSchedule(schedule_id)
    \/ \E session_id \in 1..Len(session_instances) : CheckIn(session_id)
    \/ \E student_id \in Students \cup {NoStudent}, auto_reschedule \in BOOLEAN :
          MarkMissed(student_id, auto_reschedule)
    \/ \E student_id \in Students, m \in 1..Len(session_instances), j \in 1..MaxCandidates :
          ManualReschedule(student_id, m, j)
    \/ \E student_id \in Students, m \in 1..Len(session_instances) : Skip(student_id, m)

Spec == Init /\ [][Next]_vars

\* the conflict engine on its own: the student's slots and windows are
\* drawn from small families, then proposals are checked against them
ProposalDays == {0, 1}

EmmaWindows ==
    { Window("emma", 0, <<9, 0>>, <<10, 0>>, "avoid"),
      Window("emma", 0, <<9, 0>>, <<11, 0>>, "preferred"),
      Window("emma", 0, <<10, 0>>, <<11, 0>>, "available"),
      Window("emma", 1, <<9, 30>>, <<10, 30>>, "avoid") }

ConflictAvailability ==
    LET liam == <<Window("liam", 0, <<9, 0>>, <<11, 0>>, "available")>>
    IN {liam}
       \cup {<<w>> \o liam : w \in EmmaWindows}
       \cup {<<w1, w2>> \o liam : w1 \in EmmaWindows, w2 \in EmmaWindows}

ConflictSlots ==
    { <<Slot(1, 0, <<9, 0>>, <<10, 0>>), Slot(2, 0, <<10, 0>>, <<11, 0>>),
        Slot(3, 0, <<9, 30>>, <<10, 30>>)>>,
      <<Slot(1, 0, <<9, 30>>, <<10, 30>>), Slot(1, 1, <<10, 0>>, <<11, 0>>),
        Slot(2, 1, <<9, 0>>, <<10, 0>>), Slot(3, 1, <<9, 0>>, <<9, 30>>)>> }

InitConflict ==
    /\ today = 0
    /\ schedules = <<Schedule("emma", "active"), Schedule("emma", "proposed"),
                     Schedule("liam", "active")>>
    /\ schedule_slots \in ConflictSlots
    /\ availability \in ConflictAvailability
    /\ session_instances = <<>>
    /\ checkin_log = <<>>
    /\ last = [op |-> "init"]

NextConflict ==
    \E student_id \in Students, proposed_day \in ProposalDays,
       proposed_start \in TimeStrings, proposed_end \in TimeStrings :
          DetectConflicts(student_id, proposed_day, proposed_start, proposed_end)

SpecConflict == InitConflict /\ [][NextConflict]_vars

\* ----------------------------------------- proposing and expanding
\* the course codes of the catalogue, and one that is not in it
Courses == {"MATH-5A"}
UnknownCourse == "NONE-0"

\* the slot lists a proposal is made with
ProposedSlotLists ==
    { <<>>,
      <<[day_of_week |-> 2, start_time |-> <<9, 0>>, end_time |-> <<10, 0>>],
        [day_of_week |-> 0, start_time |-> <<9, 0>>, end_time |-> <<10, 0>>]>> }

\* schedule_writer.propose_schedule
ProposeSchedule(student_id, course_code, slots, duration_weeks) ==
    LET monday == today - Weekday(today)
        start == IF Weekday(today) > 0 THEN monday + 7 ELSE monday
        end == start + 7 * duration_weeks
        schedule_id == Len(schedules) + 1
    IN /\ Len(schedules) < MaxSchedules
       /\ IF course_code \notin Courses
          THEN /\ last' = [op |-> "propose_schedule", error |-> TRUE]
               /\ UNCHANGED <<schedules, schedule_slots>>
          ELSE /\ schedules' = Append(schedules,
                      [student_id |-> student_id, status |-> "proposed",
                       start_date |-> start, end_date |-> end])
               /\ schedule_slots' = schedule_slots \o
                      [k \in 1..Len(slots) |->
                          Slot(schedule_id, slots[k].day_of_week,
                               slots[k].start_time, slots[k].end_time)]
               /\ last' = [op |-> "propose_schedule", error |-> FALSE,
                           schedule_id |-> schedule_id,
                           duration_weeks |-> duration_weeks]
       /\ UNCHANGED <<today, availability, session_instances, checkin_log>>

\* queries.generate_session_instances called with a range of its own
GenerateSessionInstances(schedule_id, start_date, end_date) ==
    LET g == generate_session_instances(session_instances, schedule_id,
                                        start_date, end_date)
    IN /\ session_instances' = g.db
       /\ last' = [op |-> "generate_session_instances", schedule_id |-> schedule_id,
                   start_date |-> start_date, end_date |-> end_date,
                   data |-> g.data]
       /\ UNCHANGED <<today, schedules, schedule_slots, availability, checkin_log>>

\* the ranges generate_session_instances is called with: one that starts and
\* ends on a Wednesday and overlaps the first weeks of the schedules, and an
\* empty one
Ranges == {<<2, 9>>, <<9, 7>>}

\* a store with one active schedule of liam (a Tuesday slot), confirmed,
\* its first session checked in, on a Monday or a Tuesday
InitExpand ==
    /\ today \in {0, 1}
    /\ schedules = <<Schedule("liam", "active")>>
    /\ schedule_slots = <<Slot(1, 1, <<9, 0>>, <<10, 0>>)>>
    /\ availability = <<>>
    /\ session_instances =
          [generate_session_instances(<<>>, 1, 0, 7).db
              EXCEPT ![1].status = "completed", ![1].checked_in_at = Now]
    /\ checkin_log = <<LogEntry(1, "check_in", "parent", FALSE, NULL)>>
    /\ last = [op |-> "init"]

NextExpand ==
    \/ \E student_id \in {"emma"}, course_code \in Courses \cup {UnknownCourse},
          slots \in ProposedSlotLists, duration_weeks \in {1, MaxWeeks} :
          ProposeSchedule(student_id, course_code, slots, duration_weeks)
    \/ \E schedule_id \in 1..Len(schedules) : ConfirmSchedule(schedule_id)
    \/ \E schedule_id \in 1..Len(schedules), range \in Ranges :
          GenerateSessionInstances(schedule_id, range[1], range[2])

SpecExpand == InitExpand /\ [][NextExpand]_vars

\* --------------------------------------- finding and installing slots
\* queries.find_available_reschedule_slots, a query; 'accepted' is its list
\* of candidates before the sort and the cut
FindSlots(student_id, missed_session_id, days_ahead) ==
    /\ last' = [op |-> "find_available_reschedule_slots", student_id |-> student_id,
                missed_session_id |-> missed_session_id, days_ahead |-> days_ahead,
                accepted |-> IF missed_session_id \in 1..Len(session_instances)
                             THEN AcceptedCandidates(session_instances, student_id,
                                                     missed_session_id, days_ahead)
                             ELSE <<>>,
                result |-> find_available_reschedule_slots(
                               session_instances, student_id, missed_session_id,
                               days_ahead)]
    /\ UNCHANGED <<today, schedules, schedule_slots, availability,
                   session_instances, checkin_log>>

\* queries.reschedule_session called with arguments of the caller's choice
RescheduleSession(missed_session_id, new_date, new_start, new_end) ==
    LET r == reschedule_session(session_instances, checkin_log, missed_session_id,
                                new_date, new_start, new_end)
    IN /\ Len(checkin_log) < MaxLog
       /\ session_instances' = r.db
       /\ checkin_log' = r.log
       /\ last' = [op |-> "reschedule_session", missed_session_id |-> missed_session_id,
                   new_date |-> new_date, new_start |-> new_start,
                   new_end |-> new_end, outcome |-> r.outcome, id |-> r.id]
       /\ UNCHANGED <<today, schedules, schedule_slots, availability>>

\* emma's week of windows: two preferences on one day, a window too short
\* for an hour, one whose start is booked, one that ends where a booking
\* starts
FinderWindows ==
    <<Window("emma", 3, <<9, 0>>, <<11, 0>>, "preferred"),
      Window("emma", 3, <<10, 0>>, <<11, 0>>, "available"),
      Window("emma", 4, <<9, 0>>, <<10, 0>>, "available"),
      Window("emma", 5, <<9, 0>>, <<9, 30>>, "avoid"),
      Window("emma", 6, <<9, 0>>, <<10, 0>>, "avoid"),
      Window("emma", 0, <<9, 0>>, <<11, 0>>, "available"),
      Window("emma", 1, <<9, 0>>, <<10, 0>>, "preferred"),
      Window("emma", 2, <<9, 0>>, <<10, 0>>, "preferred"),
      Window("liam", 3, <<9, 0>>, <<10, 0>>, "available")>>

FinderAvailability ==
    { FinderWindows,
      <<Window("emma", 0, <<10, 0>>, <<11, 0>>, "available"),
        Window("emma", 2, <<9, 0>>, <<10, 0>>, "avoid"),
        Window("liam", 4, <<9, 0>>, <<10, 0>>, "preferred")>> }

FinderSlots ==
    <<Slot(1, 0, <<9, 0>>, <<10, 0>>), Slot(1, 1, <<9, 0>>, <<9, 30>>),
      Slot(1, 4, <<10, 0>>, <<11, 0>>), Slot(2, 3, <<9, 0>>, <<10, 0>>)>>

\* the values days_ahead is given
SearchDays == {3, DaysAhead}

\* Wednesday of the first week: both schedules were confirmed on Monday,
\* emma's Monday and Tuesday sessions were swept as missed without a
\* replacement, and next Monday's session is checked in already or not
InitFinder ==
    /\ today = 2
    /\ schedules = <<Schedule("emma", "active"), Schedule("liam", "active")>>
    /\ schedule_slots = FinderSlots
    /\ availability \in FinderAvailability
    /\ \E checked_in \in BOOLEAN :
          LET db == Upsert(Upsert(<<>>, ExpandSlots(1, 0, 7)), ExpandSlots(2, 0, 7))
              swept == [db EXCEPT ![1].status = "missed", ![3].status = "missed"]
          IN session_instances =
                IF checked_in
                THEN [swept EXCEPT ![2].status = "completed", ![2].checked_in_at = Now]
                ELSE swept
    /\ checkin_log = <<LogEntry(1, "auto_miss", "system", FALSE, NULL),
                       LogEntry(3, "auto_miss", "system", FALSE, NULL)>>
    /\ last = [op |-> "init"]

NextFinder ==
    \/ \E student_id \in Students, missed_session_id \in 1..(Len(session_instances) + 1),
          days_ahead \in SearchDays :
          FindSlots(student_id, missed_session_id, days_ahead)
    \/ \E missed_session_id \in 1..(Len(session_instances) + 1), new_date \in {3, 7} :
          RescheduleSession(missed_session_id, new_date, <<9, 0>>, <<10, 0>>)

SpecFinder == InitFinder /\ [][NextFinder]_vars

\* ------------------------------------------------------ check-in statistics
\* the walk gives up below today - timedelta(days=30)
StreakGiveUp == 30

\* all_sessions of get_checkin_stats: the rows of the student's active
\* schedules dated up to and including t, kept as they were read
AllSessions(db, student_id, t) ==
    LET S == {i \in 1..Len(db) :
                 /\ db[i].schedule_id \in Range(get_student_schedules(student_id, "active"))
                 /\ db[i].session_date <= t}
    IN [i \in S |-> db[i]]

\* sum(1 for s in all_sessions if s["status"] == status)
CountStatus(all, status) == Cardinality({i \in DOMAIN all : all[i].status = status})

\* mutant: the pending sessions stay in the denominator
PastTotalWithPending(total, pending) == total

\* past_total = total - pending
PastTotal(total, pending) == total - pending

\* completed / past_total if past_total > 0 else 0.0, kept as a fraction
CompletionRate(completed, past_total) ==
    IF past_total > 0 THEN [num |-> completed, den |-> past_total]
    ELSE [num |-> 0, den |-> 1]

\* day_sessions of the streak loop
DaySessions(all, d) == {i \in DOMAIN all : all[i].session_date = d}

\* mutant: a day counts as soon as one of its sessions is completed
WalkStepAnyCompleted(all, t, w) ==
    LET day == DaySessions(all, w.check_date)
    IN IF day = {}
       THEN [streak |-> w.streak, check_date |-> w.check_date - 1,
             pc |-> IF w.check_date - 1 < t - StreakGiveUp THEN "done" ELSE "walk"]
       ELSE IF \E i \in day : all[i].status = "completed"
            THEN [streak |-> w.streak + 1, check_date |-> w.check_date - 1, pc |-> "walk"]
            ELSE [streak |-> w.streak, check_date |-> w.check_date, pc |-> "done"]

\* mutant: an empty day is skipped without moving to the day before
WalkStepNoAdvance(all, t, w) ==
    LET day == DaySessions(all, w.check_date)
    IN IF day = {}
       THEN [streak |-> w.streak, check_date |-> w.check_date, pc |-> "walk"]
       ELSE IF \A i \in day : all[i].status = "completed"
            THEN [streak |-> w.streak + 1, check_date |-> w.check_date - 1, pc |-> "walk"]
            ELSE [streak |-> w.streak, check_date |-> w.check_date, pc |-> "done"]

\* one pass of the while loop of get_checkin_stats over the position
\* w = (streak, check_date)
WalkStep(all, t, w) ==
    LET day == DaySessions(all, w.check_date)
    IN IF day = {}
       THEN [streak |-> w.streak, check_date |-> w.check_date - 1,
             pc |-> IF w.check_date - 1 < t - StreakGiveUp THEN "done" ELSE "walk"]
       ELSE IF \A i \in day : all[i].status = "completed"
            THEN [streak |-> w.streak + 1, check_date |-> w.check_date - 1, pc |-> "walk"]
            ELSE [streak |-> w.streak, check_date |-> w.check_date, pc |-> "done"]

\* a call of get_checkin_stats is inside its streak loop
Walking == last.op = "get_checkin_stats" /\ last.pc = "walk"

\* get_checkin_stats up to the start of the streak loop; the week figures,
\* which the code computes after the loop from the same rows, are recorded
\* here
GetCheckinStats(student_id) ==
    /\ ~Walking
    /\ LET all == AllSessions(session_instances, student_id, today)
           total == Cardinality(DOMAIN all)
           completed == CountStatus(all, "completed")
           pending == CountStatus(all, "pending")
           week_start == today - Weekday(today)
           week == {i \in DOMAIN all : all[i].session_date >= week_start}
       IN last' =
            IF get_student_schedules(student_id, "active") = <<>>
            THEN [op |-> "get_checkin_stats", student_id |-> student_id,
                  pc |-> "done", walked |-> FALSE, all_sessions |-> all,
                  total |-> 0, completed |-> 0, missed |-> 0, pending |-> 0,
                  rescheduled |-> 0, completion_rate |-> CompletionRate(0, 0),
                  streak |-> 0, check_date |-> today - 1,
                  week_completed |-> 0, week_total |-> 0]
            ELSE [op |-> "get_checkin_stats", student_id |-> student_id,
                  pc |-> "walk", walked |-> TRUE, all_sessions |-> all,
                  total |-> total, completed |-> completed,
                  missed |-> CountStatus(all, "missed"), pending |-> pending,
                  rescheduled |-> CountStatus(all, "rescheduled"),
                  completion_rate |-> CompletionRate(completed, PastTotal(total, pending)),
                  streak |-> 0, check_date |-> today - 1,
                  week_completed |-> Cardinality({i \in week : all[i].status = "completed"}),
                  week_total |-> Cardinality(week)]
    /\ UNCHANGED <<today, schedules, schedule_slots, availability,
                   session_instances, checkin_log>>

\* one iteration of the streak loop
StreakStep ==
    /\ Walking
    /\ LET w == WalkStep(last.all_sessions, today,
                         [streak |-> last.streak, check_date |-> last.check_date])
       IN last' = [last EXCEPT !.streak = w.streak, !.check_date = w.check_date,
                               !.pc = w.pc]
    /\ UNCHANGED <<today, schedules, schedule_slots, availability,
                   session_instances, checkin_log>>

\* a session row in a given status, as check_in_session or the sweep leave it
Row(schedule_id, slot_id, d, status) ==
    [NewInstance(schedule_id, slot_id, d, <<9, 0>>, <<10, 0>>, NULL)
        EXCEPT !.status = status,
               !.checked_in_at = IF status = "completed" THEN Now ELSE NULL]

\* the row of day d if there is one
RowIf(schedule_id, slot_id, d, status) ==
    IF status = "none" THEN <<>> ELSE <<Row(schedule_id, slot_id, d, status)>>

\* the log entries behind the status of row id
LogFor(db, id) ==
    IF db[id].status = "completed" THEN <<LogEntry(id, "check_in", "parent", FALSE, NULL)>>
    ELSE IF db[id].status \in {"missed", "cancelled"}
         THEN <<LogEntry(id, "auto_miss", "system", FALSE, NULL)>>
    ELSE IF db[id].status = "rescheduled"
         THEN <<LogEntry(id, "auto_miss", "system", FALSE, NULL),
                LogEntry(id, "reschedule", "parent", FALSE,
                         db[db[id].rescheduled_to].session_date),
                LogEntry(id, "reschedule", "system", TRUE,
                         db[db[id].rescheduled_to].session_date)>>
    ELSE <<>>

\* the statuses a day's session is found in
StatsToday == {"none", "pending", "completed"}
StatsYesterday == {"none", "completed", "missed", "cancelled"}
StatsSecond == {"none", "completed", "missed"}
StatsTwoAgo == {"none", "completed", "rescheduled", "pending"}
StatsThirty == {"none", "completed"}
StatsThirtyOne == {"none", "completed", "missed"}

\* a Friday in the sixth week of emma's two schedules (Tuesday to Friday at
\* 9, and a second course on Thursday): sessions today, yesterday, the day
\* before, and 30 and 31 days ago, each there or not and in one of the
\* statuses the lifecycle leaves; liam's schedule is active with a missed
\* session yesterday, or still a draft
InitStats ==
    /\ today = StreakGiveUp + 2
    /\ schedule_slots = <<Slot(1, 1, <<9, 0>>, <<10, 0>>), Slot(1, 2, <<9, 0>>, <<10, 0>>),
                          Slot(1, 3, <<9, 0>>, <<10, 0>>), Slot(1, 4, <<9, 0>>, <<10, 0>>),
                          Slot(2, 3, <<9, 0>>, <<10, 0>>), Slot(3, 3, <<9, 0>>, <<10, 0>>)>>
    /\ availability = <<Window("emma", 5, <<9, 0>>, <<10, 0>>, "available")>>
    /\ \E liam_active \in BOOLEAN, s0 \in StatsToday, s1 \in StatsYesterday,
          s1b \in StatsSecond, s2 \in StatsTwoAgo, s30 \in StatsThirty,
          s31 \in StatsThirtyOne :
          LET t == StreakGiveUp + 2
              plain == RowIf(1, 1, t - 31, s31) \o RowIf(1, 2, t - 30, s30)
                       \o RowIf(1, 3, t - 1, s1) \o RowIf(2, 5, t - 1, s1b)
                       \o RowIf(1, 4, t, s0)
                       \o (IF liam_active THEN RowIf(3, 6, t - 1, "missed") ELSE <<>>)
                       \o (IF s2 = "rescheduled" THEN <<>> ELSE RowIf(1, 2, t - 2, s2))
              n == Len(plain)
              db == IF s2 = "rescheduled"
                    THEN plain \o
                         <<[Row(1, 2, t - 2, "rescheduled") EXCEPT !.rescheduled_to = n + 2],
                           NewInstance(1, 2, t + 1, <<9, 0>>, <<10, 0>>, n + 1)>>
                    ELSE plain
          IN /\ schedules =
                   <<[Schedule("emma", "active") EXCEPT !.end_date = t + 7],
                     [Schedule("emma", "active") EXCEPT !.end_date = t + 7],
                     [Schedule("liam", IF liam_active THEN "active" ELSE "draft")
                         EXCEPT !.end_date = t + 7]>>
             /\ session_instances = db
             /\ checkin_log = FlattenSeq([i \in 1..Len(db) |-> LogFor(db, i)])
    /\ last = [op |-> "init"]

NextStats ==
    \/ \E student_id \in Students : GetCheckinStats(student_id)
    \/ StreakStep

SpecStats == InitStats /\ [][NextStats]_vars

\* the loop runs in the caller's thread without waiting for anything, so an
\* iteration that is due is taken
SpecStatsFair == SpecStats /\ WF_vars(StreakStep)

\* ------------------------------------------------------ interleaved sweeps
\* Two page loads run mark_missed_sessions(student_id, auto_reschedule=True)
\* for the same student; each store call is one step. calls[p] is the
\* position of call p: its pc, the rows selected and not yet handled
\* (pending_past from the current one on), its result lists, and inside
\* reschedule_session the chosen candidate, the row read and the new id.
SweepStudent == "emma"

Sweepers == {1, 2}

Call(pc, pending_past, missed, rescheduled, best, row, new_id) ==
    [pc |-> pc, pending_past |-> pending_past, missed |-> missed,
     rescheduled |-> rescheduled, best |-> best, row |-> row, new_id |-> new_id]

\* the call after the body of the for loop: the next selected row or the return
NextSession(c, rescheduled) ==
    Call(IF Tail(c.pending_past) = <<>> THEN "done" ELSE "mark",
         Tail(c.pending_past), c.missed, rescheduled, NULL, NULL, NULL)

\* call p is at pc
At(p, pc) == last.op = "sweeps" /\ last.calls[p].pc = pc

\* the query of lines 389-406
SweepSelect(p) ==
    /\ At(p, "idle")
    /\ \E pending_past \in Orders(PendingPast(session_instances, SweepStudent)) :
          last' = [last EXCEPT
              !.calls[p] = Call(IF pending_past = <<>> THEN "done" ELSE "mark",
                                pending_past, <<>>, <<>>, NULL, NULL, NULL),
              !.overlapped = last.overlapped
                             \/ \E q \in Sweepers \ {p} :
                                   last.calls[q].pc \notin {"idle", "done"}]
    /\ UNCHANGED <<today, schedules, schedule_slots, availability,
                   session_instances, checkin_log>>

\* the update of lines 409-411
SweepMark(p) ==
    /\ At(p, "mark")
    /\ session_instances' =
          [session_instances EXCEPT ![Head(last.calls[p].pending_past)].status = "missed"]
    /\ last' = [last EXCEPT !.calls[p].pc = "log_miss"]
    /\ UNCHANGED <<today, schedules, schedule_slots, availability, checkin_log>>

\* the insert of lines 413-417, and missed.append
SweepLogMiss(p) ==
    /\ At(p, "log_miss")
    /\ checkin_log' = Append(checkin_log,
          LogEntry(Head(last.calls[p].pending_past), "auto_miss", "system", FALSE, NULL))
    /\ last' = [last EXCEPT !.calls[p].pc = "find",
                            !.calls[p].missed = Append(@, Head(last.calls[p].pending_past))]
    /\ UNCHANGED <<today, schedules, schedule_slots, availability, session_instances>>

\* find_available_reschedule_slots (lines 425-427), its reads taken together
SweepFind(p) ==
    /\ At(p, "find")
    /\ LET c == last.calls[p]
           candidates == find_available_reschedule_slots(
                             session_instances, SweepStudent, Head(c.pending_past), DaysAhead)
       IN last' = [last EXCEPT !.calls[p] =
                      IF candidates = <<>> THEN NextSession(c, c.rescheduled)
                      ELSE [c EXCEPT !.pc = "read", !.best = candidates[1]]]
    /\ UNCHANGED <<today, schedules, schedule_slots, availability,
                   session_instances, checkin_log>>

\* reschedule_session: the select of line 594
SweepRead(p) ==
    /\ At(p, "read")
    /\ last' = [last EXCEPT !.calls[p].pc = "insert",
                            !.calls[p].row =
                                session_instances[Head(last.calls[p].pending_past)]]
    /\ UNCHANGED <<today, schedules, schedule_slots, availability,
                   session_instances, checkin_log>>

\* reschedule_session: the insert of lines 602-610; an insert on a key that
\* is taken raises, and the sweep goes on to its next row
SweepInsert(p) ==
    /\ At(p, "insert")
    /\ LET c == last.calls[p]
       IN IF RowWithKey(session_instances, c.row.schedule_slot_id, c.best.date) # NULL
          THEN /\ last' = [last EXCEPT !.calls[p] = NextSession(c, c.rescheduled)]
               /\ UNCHANGED session_instances
          ELSE /\ session_instances' =
                     Append(session_instances,
                            NewInstance(c.row.schedule_id, c.row.schedule_slot_id,
                                        c.best.date, c.best.start_time, c.best.end_time,
                                        Head(c.pending_past)))
               /\ last' = [last EXCEPT !.calls[p].pc = "update",
                                       !.calls[p].new_id = Len(session_instances) + 1]
    /\ UNCHANGED <<today, schedules, schedule_slots, availability, checkin_log>>

\* reschedule_session: the update of lines 613-616
SweepUpdate(p) ==
    /\ At(p, "update")
    /\ session_instances' = LinkMissed(session_instances,
                                       Head(last.calls[p].pending_past),
                                       last.calls[p].new_id)
    /\ last' = [last EXCEPT !.calls[p].pc = "log_parent"]
    /\ UNCHANGED <<today, schedules, schedule_slots, availability, checkin_log>>

\* reschedule_session: the log insert of lines 619-624
SweepLogParent(p) ==
    /\ At(p, "log_parent")
    /\ checkin_log' = Append(checkin_log,
          LogEntry(Head(last.calls[p].pending_past), "reschedule", "parent", FALSE,
                   last.calls[p].best.date))
    /\ last' = [last EXCEPT !.calls[p].pc = "log_system"]
    /\ UNCHANGED <<today, schedules, schedule_slots, availability, session_instances>>

\* the log insert of lines 434-443 and rescheduled.append
SweepLogSystem(p) ==
    /\ At(p, "log_system")
    /\ LET c == last.calls[p]
       IN /\ checkin_log' = Append(checkin_log,
                LogEntry(Head(c.pending_past), "reschedule", "system", TRUE, c.best.date))
          /\ last' = [last EXCEPT !.calls[p] =
                NextSession(c, Append(c.rescheduled,
                    [missed_session |-> Head(c.pending_past), new_date |-> c.best.date,
                     new_start |-> c.best.start_time, new_end |-> c.best.end_time,
                     new_session_id |-> c.new_id]))]
    /\ UNCHANGED <<today, schedules, schedule_slots, availability, session_instances>>

\* the seeded windows and a Thursday hour for emma
InterleavedAvailability ==
    SeededAvailability \o <<Window("emma", 3, <<9, 0>>, <<10, 0>>, "available")>>

\* Tuesday or Wednesday of the first week, nothing checked in, no sweep yet
InitInterleaved ==
    /\ today \in {1, 2}
    /\ schedules = <<Schedule("emma", "active"), Schedule("liam", "active")>>
    /\ schedule_slots = SeededSlots
    /\ availability = InterleavedAvailability
    /\ session_instances =
          generate_session_instances(
              generate_session_instances(<<>>, 1, 0, 7).db, 2, 0, 7).db
    /\ checkin_log = <<>>
    /\ last = [op |-> "sweeps",
               calls |-> [p \in Sweepers |-> Call("idle", <<>>, <<>>, <<>>, NULL, NULL, NULL)],
               overlapped |-> FALSE]

NextInterleaved ==
    \E p \in Sweepers :
        \/ SweepSelect(p)
        \/ SweepMark(p)
        \/ SweepLogMiss(p)
        \/ SweepFind(p)
        \/ SweepRead(p)
        \/ SweepInsert(p)
        \/ SweepUpdate(p)
        \/ SweepLogParent(p)
        \/ SweepLogSystem(p)

SpecInterleaved == InitInterleaved /\ [][NextInterleaved]_vars

\* ====================================================== properties
IsDetect == last.op = "detect_conflicts"

\* some availability window of the student on the proposed day contains
\* the whole proposal
SomeWindowContains(student_id, day, start, end) ==
    \E i \in 1..Len(availability) :
        /\ availability[i].student_id = student_id
        /\ availability[i].day_of_week = day
        /\ ToMinutes(availability[i].start_time) <= ToMinutes(start)
        /\ ToMinutes(end) <= ToMinutes(availability[i].end_time)

\* the two intervals have a minute in common
ShareTime(s1, e1, s2, e2) ==
    \E t \in 0..1439 : s1 <= t /\ t < e1 /\ s2 <= t /\ t < e2

\* the slots of the student's active schedules
ActiveSlotsOf(student_id) ==
    {i \in 1..Len(schedule_slots) :
        /\ schedules[schedule_slots[i].schedule_id].student_id = student_id
        /\ schedules[schedule_slots[i].schedule_id].status = "active"}

\* C1: detect_conflicts resolves the verdict in strict priority order: a
\* non-empty conflict list gives NO, whatever window the proposal lies in;
\* else a proposal no window contains gives NO; else the recorded preference
\* avoid gives MAYBE; else (preferred, available) YES.  MAYBE is returned only
\* without conflicts, within availability, with preference avoid.
C1_VerdictPriority ==
    IsDetect =>
        LET r == last.result
            contained == SomeWindowContains(last.student_id, last.proposed_day,
                                            last.proposed_start, last.proposed_end)
        IN /\ r.conflicts # <<>> => r.verdict = "NO"
           /\ (r.conflicts = <<>> /\ ~contained) => r.verdict = "NO"
           /\ (r.conflicts = <<>> /\ contained /\ r.preference = "avoid")
                 => r.verdict = "MAYBE"
           /\ (r.conflicts = <<>> /\ contained /\ r.preference \in {"preferred", "available"})
                 => r.verdict = "YES"
           /\ r.verdict = "MAYBE"
                 => (r.conflicts = <<>> /\ contained /\ r.preference = "avoid")
           /\ r.verdict \in {"YES", "NO", "MAYBE"}

\* a proposal that lies in an avoid window and collides with a booking is
\* answered NO
C1_Witness ==
    /\ IsDetect
    /\ last.result.conflicts # <<>>
    /\ last.result.within_availability
    /\ last.result.preference = "avoid"
    /\ last.result.verdict = "NO"

\* C2: within_availability is true exactly when some window of the student
\* on the proposed day contains the whole proposal; a window the proposal
\* only overlaps does not count.
C2_WithinIffContained ==
    IsDetect =>
        (last.result.within_availability
            <=> SomeWindowContains(last.student_id, last.proposed_day,
                                   last.proposed_start, last.proposed_end))

\* the proposal [9:00, 10:30) overlaps a window of the student, none
\* contains it, and it is reported as outside the availability
C2_Witness ==
    /\ IsDetect
    /\ last.proposed_start = <<9, 0>> /\ last.proposed_end = <<10, 30>>
    /\ \E i \in 1..Len(availability) :
          /\ availability[i].student_id = last.student_id
          /\ availability[i].day_of_week = last.proposed_day
          /\ Trunc5(availability[i].start_time) = <<9, 0>>
          /\ Trunc5(availability[i].end_time) = <<10, 0>>
    /\ ~last.result.within_availability

\* C3: for a well-formed proposal the conflict list holds exactly the slots
\* of the student's active schedules on the proposed day that share some time
\* with it; a slot that ends when the proposal starts (or starts when it
\* ends) is no conflict.
C3_OverlapHalfOpen ==
    (IsDetect /\ ToMinutes(last.proposed_start) < ToMinutes(last.proposed_end)) =>
        Range(last.result.conflicts) =
            {i \in ActiveSlotsOf(last.student_id) :
                /\ schedule_slots[i].day_of_week = last.proposed_day
                /\ ShareTime(ToMinutes(last.proposed_start), ToMinutes(last.proposed_end),
                             ToMinutes(schedule_slots[i].start_time),
                             ToMinutes(schedule_slots[i].end_time))}

\* the proposal starts exactly when an active slot of the student ends, and
\* nothing conflicts
C3_Witness ==
    /\ IsDetect
    /\ ToMinutes(last.proposed_start) < ToMinutes(last.proposed_end)
    /\ \E i \in ActiveSlotsOf(last.student_id) :
          /\ schedule_slots[i].day_of_week = last.proposed_day
          /\ Trunc5(schedule_slots[i].end_time) = last.proposed_start
    /\ last.result.conflicts = <<>>

\* ------------------------------------------------ session lifecycle
Status(i) == session_instances[i].status

\* the step just taken ran one of the lifecycle operations
LifecycleStep ==
    last'.op \in {"check_in_session", "mark_missed_sessions",
                  "reschedule_session", "skip"}

PermittedEdges ==
    {<<"pending", "completed">>, <<"pending", "missed">>,
     <<"missed", "rescheduled">>, <<"pending", "cancelled">>,
     <<"missed", "cancelled">>}

\* C4: every status change made by a lifecycle operation follows a permitted
\* edge: pending->completed, pending->missed (only for a date before today),
\* missed->rescheduled, pending->cancelled, missed->cancelled.  (A sweep may
\* take pending->missed->rescheduled within one call.)
C4_OnlyPermittedTransitions ==
    [][LifecycleStep =>
         \A i \in 1..Len(session_instances) :
            LET a == session_instances[i].status
                b == session_instances'[i].status
            IN \/ a = b
               \/ /\ <<a, b>> \in PermittedEdges
                  /\ (b = "missed" => session_instances[i].session_date < today)
               \/ /\ last'.op = "mark_missed_sessions"
                  /\ a = "pending" /\ b = "rescheduled"
                  /\ session_instances[i].session_date < today]_vars

\* C5: completed and cancelled are terminal: no lifecycle operation changes
\* the status of an instance that is completed or cancelled.
C5_TerminalStatuses ==
    [][LifecycleStep =>
         \A i \in 1..Len(session_instances) :
            session_instances[i].status \in {"completed", "cancelled"}
               => session_instances'[i].status = session_instances[i].status]_vars

\* the successful calls of reschedule_session the last operation made
Reschedules(l) ==
    IF l.op = "reschedule_session" /\ l.outcome = "ok"
    THEN {[old |-> l.missed_session_id, new |-> l.id, new_date |-> l.new_date,
           new_start |-> l.new_start, new_end |-> l.new_end]}
    ELSE IF l.op = "mark_missed_sessions"
    THEN {[old |-> l.rescheduled[k].missed_session,
           new |-> l.rescheduled[k].new_session_id,
           new_date |-> l.rescheduled[k].new_date,
           new_start |-> l.rescheduled[k].new_start,
           new_end |-> l.rescheduled[k].new_end] : k \in 1..Len(l.rescheduled)}
    ELSE {}

\* what C6 says of a successful reschedule_session, but for its last clause
RescheduleInstalled(r) ==
    LET old == session_instances'[r.old]
        new == session_instances'[r.new]
    IN /\ r.new \notin 1..Len(session_instances)
       /\ r.new \in 1..Len(session_instances')
       /\ old.status = "rescheduled"
       /\ old.rescheduled_to = r.new
       /\ new.status = "pending"
       /\ new.schedule_id = old.schedule_id
       /\ new.schedule_slot_id = old.schedule_slot_id
       /\ new.session_date = r.new_date
       /\ Trunc5(new.start_time) = r.new_start
       /\ Trunc5(new.end_time) = r.new_end
       /\ new.rescheduled_from = r.old

ExactlyOneLink(row) ==
    (row.rescheduled_from # NULL) # (row.rescheduled_to # NULL)

RECURSIVE FollowTo(_, _, _)
FollowTo(i, seen, fuel) ==
    LET to == session_instances[i].rescheduled_to
    IN IF to = NULL \/ fuel = 0 THEN seen
       ELSE FollowTo(to, seen \cup {to}, fuel - 1)

\* C8: the rescheduled_to relation is acyclic, and a rescheduled_to value
\* that an operation sets names an instance that did not exist before it.
C8_ReschedulesAcyclic ==
    /\ [](\A i \in 1..Len(session_instances) :
            i \notin FollowTo(i, {}, Len(session_instances)))
    /\ [][\A i \in 1..Len(session_instances) :
            session_instances'[i].rescheduled_to # session_instances[i].rescheduled_to
               => session_instances'[i].rescheduled_to \notin 1..Len(session_instances)]_vars

\* a chain of two reschedules exists
C8_Witness ==
    \E i \in 1..Len(session_instances) :
        /\ session_instances[i].rescheduled_to # NULL
        /\ session_instances[session_instances[i].rescheduled_to].rescheduled_to # NULL

\* instance i is one the sweep for student_id is to select
Overdue(i, student_id) ==
    /\ session_instances[i].status = "pending"
    /\ session_instances[i].session_date < today
    /\ student_id # NoStudent =>
          /\ schedules[session_instances[i].schedule_id].student_id = student_id
          /\ schedules[session_instances[i].schedule_id].status = "active"

\* C9: a sweep takes exactly the pending instances dated before today (of the
\* student's active schedules when a student is given): none of them is
\* pending afterwards, all of them are returned as missed, and no other
\* instance that existed before has its status changed.
C9_SweepSelection ==
    [][last'.op = "mark_missed_sessions" =>
         /\ \A i \in 1..Len(session_instances) :
               IF Overdue(i, last'.student_id)
               THEN session_instances'[i].status \in {"missed", "rescheduled"}
               ELSE session_instances'[i].status = session_instances[i].status
         /\ Range(last'.missed) = {i \in 1..Len(session_instances) :
                                     Overdue(i, last'.student_id)}]_vars

\* a sweep for one student marked something missed while it left alone an
\* overdue pending instance of the other student and a pending instance of
\* its own student that is not overdue
C9_Witness ==
    /\ last.op = "mark_missed_sessions"
    /\ last.student_id # NoStudent
    /\ last.missed # <<>>
    /\ \E i \in 1..Len(session_instances) :
          /\ OwnerOf(session_instances, i) # last.student_id
          /\ session_instances[i].status = "pending"
          /\ session_instances[i].session_date < today
    /\ \E i \in 1..Len(session_instances) :
          /\ OwnerOf(session_instances, i) = last.student_id
          /\ session_instances[i].status = "pending"
          /\ session_instances[i].session_date >= today

\* C10: in a sweep with autoReschedule, scoped to a student or not, every
\* newly missed instance for which the finder has a candidate ends
\* rescheduled, with a pending replacement at the first candidate's date and
\* time that points back to it, and the pair is in the returned list.
C10_AutoRescheduleAlways ==
    (last.op = "mark_missed_sessions" /\ last.auto_reschedule) =>
        \A k \in 1..Len(last.missed) :
            LET id == last.missed[k]
                candidates ==
                    IF last.student_id # NoStudent
                    THEN last.steps[k].candidates
                    ELSE find_available_reschedule_slots(
                             session_instances, OwnerOf(session_instances, id),
                             id, DaysAhead)
            IN candidates # <<>> =>
                  /\ session_instances[id].status = "rescheduled"
                  /\ \E j \in 1..Len(last.rescheduled) :
                        LET r == last.rescheduled[j]
                        IN /\ r.missed_session = id
                           /\ r.new_date = candidates[1].date
                           /\ r.new_start = candidates[1].start_time
                           /\ r.new_end = candidates[1].end_time
                           /\ session_instances[r.new_session_id].status = "pending"
                           /\ session_instances[r.new_session_id].rescheduled_from = id
                           /\ session_instances[r.new_session_id].session_date
                                 = candidates[1].date

\* ------------------------------------------------- sweep, failures, audit
\* the passes of the last sweep in which installing the replacement failed
FailedSteps == {k \in 1..Len(last.steps) : last.steps[k].outcome = "raised"}

\* C11: when installing a replacement fails for one overdue instance, the
\* sweep still marks every selected instance missed and returns each of them
\* in 'missed', still reschedules the other instances that have candidates,
\* and leaves the failing instance with status missed and rescheduled_to
\* unset.
C11_SweepContainsFailures ==
    (last.op = "mark_missed_sessions" /\ FailedSteps # {}) =>
        /\ Range(last.missed) = last.selected
        /\ \A k \in 1..Len(last.steps) :
              LET id == last.steps[k].session
              IN IF k \in FailedSteps
                 THEN /\ session_instances[id].status = "missed"
                      /\ session_instances[id].rescheduled_to = NULL
                 ELSE IF last.steps[k].candidates # <<>>
                 THEN /\ session_instances[id].status = "rescheduled"
                      /\ \E j \in 1..Len(last.rescheduled) :
                            /\ last.rescheduled[j].missed_session = id
                            /\ session_instances[id].rescheduled_to
                                  = last.rescheduled[j].new_session_id
                 ELSE session_instances[id].status = "missed"

\* the entries the step appended to the log
Appended == SubSeq(checkin_log', Len(checkin_log) + 1, Len(checkin_log'))

\* the entries among es written for instance id with the given action
EntriesFor(es, id, action) ==
    {k \in 1..Len(es) : es[k].session_instance_id = id /\ es[k].action = action}

\* C12: a sweep appends, for each instance it marks missed, one auto_miss
\* entry by system and, for each instance it auto-reschedules, exactly one
\* further entry (reschedule, by system, auto = true): an auto-rescheduled
\* instance gains exactly two entries, and no entry of a sweep is by parent.
C12_SweepAuditEntries ==
    [][last'.op = "mark_missed_sessions" =>
         LET moved == {last'.rescheduled[j].missed_session :
                          j \in 1..Len(last'.rescheduled)}
         IN /\ \A id \in Range(last'.missed) :
                  /\ Cardinality(EntriesFor(Appended, id, "auto_miss")) = 1
                  /\ Cardinality(EntriesFor(Appended, id, "reschedule"))
                        = IF id \in moved THEN 1 ELSE 0
            /\ \A k \in 1..Len(Appended) :
                  /\ Appended[k].performed_by = "system"
                  /\ Appended[k].session_instance_id \in Range(last'.missed)
                  /\ Appended[k].action = "reschedule" => Appended[k].auto
            /\ Len(Appended) = Len(last'.missed) + Len(last'.rescheduled)]_vars

\* ------------------------------------------------------- expansion
\* the step just taken expanded a schedule
Expanded(l) == l.op \in {"generate_session_instances", "confirm_schedule"}

\* the range a step expanded its schedule over
ExpandedFrom(l) ==
    IF l.op = "confirm_schedule" THEN schedules[l.schedule_id].start_date
    ELSE l.start_date

ExpandedTo(l) ==
    IF l.op = "confirm_schedule" THEN schedules[l.schedule_id].end_date
    ELSE l.end_date

\* the pairs (slot, date) an expansion of the schedule over the inclusive
\* range [start_date, end_date] is about
KeysOf(schedule_id, start_date, end_date) ==
    {<<slot, d>> \in (1..Len(schedule_slots)) \X (start_date..end_date) :
        /\ schedule_slots[slot].schedule_id = schedule_id
        /\ Weekday(d) = schedule_slots[slot].day_of_week}

KeyOf(row) == <<row.schedule_slot_id, row.session_date>>

\* C13: expansion is idempotent on the key (schedule_slot_id, session_date):
\* there is never more than one instance per key; an expansion adds one row
\* for each key of its range that has no instance yet and returns, for a key
\* that has one, the id it already had; a call repeated with the same
\* arguments returns the same ids and stores no new instance.
C13_ExpansionIdempotent ==
    /\ [](\A i, j \in 1..Len(session_instances) :
            KeyOf(session_instances[i]) = KeyOf(session_instances[j]) => i = j)
    /\ [][Expanded(last') =>
            LET keys == KeysOf(last'.schedule_id, ExpandedFrom(last'), ExpandedTo(last'))
                had == {KeyOf(session_instances[i]) : i \in 1..Len(session_instances)}
            IN /\ Len(session_instances') = Len(session_instances)
                                               + Cardinality(keys \ had)
               /\ \A i \in 1..Len(session_instances) :
                     KeyOf(session_instances'[i]) = KeyOf(session_instances[i])
               /\ \A i \in 1..Len(session_instances) :
                     KeyOf(session_instances[i]) \in keys => i \in Range(last'.data)]_vars
    /\ [][(/\ Expanded(last) /\ Expanded(last')
           /\ last'.schedule_id = last.schedule_id
           /\ ExpandedFrom(last') = ExpandedFrom(last)
           /\ ExpandedTo(last') = ExpandedTo(last))
            => /\ Range(last'.data) = Range(last.data)
               /\ Len(last'.data) = Len(last.data)
               /\ Len(session_instances') = Len(session_instances)]_vars

\* an expansion has just returned instances all of which existed before some
\* instance that it did not touch was created
C13_Witness ==
    /\ Expanded(last)
    /\ last.data # <<>>
    /\ \E i \in 1..Len(session_instances) :
          /\ i \notin Range(last.data)
          /\ \A k \in 1..Len(last.data) : last.data[k] < i

\* C14 as stated: re-running the expansion over existing instances does not
\* reset them: an instance that was completed, missed, rescheduled or
\* cancelled keeps its status and its times.
C14_ExpansionKeepsStatus ==
    [][Expanded(last') =>
         \A i \in 1..Len(session_instances) :
            session_instances[i].status # "pending" =>
               /\ session_instances'[i].status = session_instances[i].status
               /\ session_instances'[i].start_time = session_instances[i].start_time
               /\ session_instances'[i].end_time = session_instances[i].end_time]_vars

\* C15: an expansion of a schedule over [start_date, end_date] touches exactly
\* the pairs (slot, d) with slot a slot of the schedule, d in the inclusive
\* range and on the slot's weekday: it returns one instance per pair, pending,
\* with the slot's times; it changes no other instance and creates none; a
\* schedule without slots gives an empty result and no write.
C15_ExpansionTouchesRange ==
    [][Expanded(last') =>
         LET sch == last'.schedule_id
             keys == KeysOf(sch, ExpandedFrom(last'), ExpandedTo(last'))
             data == last'.data
         IN /\ {KeyOf(session_instances'[data[k]]) : k \in 1..Len(data)} = keys
            /\ Len(data) = Cardinality(keys)
            /\ \A k \in 1..Len(data) :
                  LET row == session_instances'[data[k]]
                      slot == schedule_slots[row.schedule_slot_id]
                  IN /\ row.status = "pending"
                     /\ row.schedule_id = sch
                     /\ row.start_time = slot.start_time
                     /\ row.end_time = slot.end_time
            /\ \A i \in 1..Len(session_instances') :
                  i \notin Range(data) =>
                     /\ i \in 1..Len(session_instances)
                     /\ session_instances'[i] = session_instances[i]
            /\ (\A slot \in 1..Len(schedule_slots) : schedule_slots[slot].schedule_id # sch)
                  => /\ data = <<>>
                     /\ session_instances' = session_instances]_vars

\* an expansion from a Wednesday has skipped that week's Monday of a Monday
\* slot and returned instances of a later date
C15_Witness ==
    /\ Expanded(last)
    /\ Weekday(ExpandedFrom(last)) = 2
    /\ last.data # <<>>
    /\ \E slot \in 1..Len(schedule_slots) :
          /\ schedule_slots[slot].schedule_id = last.schedule_id
          /\ schedule_slots[slot].day_of_week = 0
          /\ \A i \in 1..Len(session_instances) :
                session_instances[i].schedule_slot_id = slot
                   => session_instances[i].session_date > ExpandedFrom(last)

\* the number of weeks the schedule was proposed for (end = start + N weeks)
DurationWeeks(schedule_id) ==
    (schedules[schedule_id].end_date - schedules[schedule_id].start_date) \div 7

\* C16: confirming a schedule proposed with duration_weeks = N materializes
\* exactly N instances for each weekly slot of the schedule, Monday slots
\* included, all pending.
C16_OneInstancePerWeek ==
    last.op = "confirm_schedule" =>
        \A slot \in 1..Len(schedule_slots) :
            schedule_slots[slot].schedule_id = last.schedule_id =>
                LET made == {k \in 1..Len(last.data) :
                               session_instances[last.data[k]].schedule_slot_id = slot}
                IN /\ Cardinality(made) = DurationWeeks(last.schedule_id)
                   /\ \A k \in made : session_instances[last.data[k]].status = "pending"

\* --------------------------------------------------------- the finder
IsFind == last.op = "find_available_reschedule_slots"

\* the length in minutes of instance id
DurationOf(id) ==
    ToMinutes(session_instances[id].end_time) - ToMinutes(session_instances[id].start_time)

\* the pairs (date, window) the finder is to accept for the student and the
\* missed instance
Placements(student_id, id, days_ahead) ==
    {<<d, w>> \in ((today + 1)..(today + days_ahead)) \X (1..Len(availability)) :
        /\ availability[w].student_id = student_id
        /\ availability[w].day_of_week = Weekday(d)
        /\ ToMinutes(availability[w].end_time) - ToMinutes(availability[w].start_time)
              >= DurationOf(id)
        /\ ~\E i \in 1..Len(session_instances) :
              /\ schedules[session_instances[i].schedule_id].student_id = student_id
              /\ schedules[session_instances[i].schedule_id].status = "active"
              /\ session_instances[i].session_date = d
              /\ ShareTime(ToMinutes(availability[w].start_time),
                           ToMinutes(availability[w].start_time) + DurationOf(id),
                           ToMinutes(session_instances[i].start_time),
                           ToMinutes(session_instances[i].end_time))}

PlacementAt(d, w, id) ==
    [date |-> d,
     start_time |-> Trunc5(availability[w].start_time),
     end_time |-> FormatMinutes(ToMinutes(availability[w].start_time) + DurationOf(id)),
     preference |-> availability[w].preference]

\* C17: before the cut the candidates are exactly, for each date d in
\* [today+1, today+days_ahead] and each window w of the student on d's weekday
\* that is at least as long as the missed session, the placement of the
\* session at w's start on d with w's preference, provided it shares no time
\* with an instance of the student's active schedules on d; nothing is placed
\* at another offset of a window.
C17_CandidatesAtWindowStart ==
    (IsFind /\ last.missed_session_id \in 1..Len(session_instances)) =>
        LET placements == Placements(last.student_id, last.missed_session_id,
                                     last.days_ahead)
        IN /\ Range(last.accepted)
                 = {PlacementAt(p[1], p[2], last.missed_session_id) : p \in placements}
           /\ Len(last.accepted) = Cardinality(placements)

\* a window of the student is long enough and free from 10:00 on, its start
\* is booked, and no candidate lies on that date
C17_Witness ==
    /\ IsFind
    /\ last.missed_session_id \in 1..Len(session_instances)
    /\ last.accepted # <<>>
    /\ \E w \in 1..Len(availability), i \in 1..Len(session_instances) :
          /\ availability[w].student_id = last.student_id
          /\ OwnerOf(session_instances, i) = last.student_id
          /\ session_instances[i].session_date \in (today + 1)..(today + last.days_ahead)
          /\ Weekday(session_instances[i].session_date) = availability[w].day_of_week
          /\ availability[w].start_time = session_instances[i].start_time
          /\ ToMinutes(availability[w].end_time) - ToMinutes(session_instances[i].end_time)
                >= DurationOf(last.missed_session_id)
          /\ \A k \in 1..Len(last.accepted) :
                last.accepted[k].date # session_instances[i].session_date

\* candidate a ranks strictly before candidate b
RanksBefore(a, b) ==
    \/ PrefRank(a.preference) < PrefRank(b.preference)
    \/ /\ PrefRank(a.preference) = PrefRank(b.preference)
       /\ a.date < b.date

\* C18: the finder returns at most 5 candidates, ordered by preference rank
\* (preferred, available, avoid) and by ascending date within a rank; they are
\* the first 5 of the accepted candidates in that order, so no omitted
\* candidate ranks strictly before a returned one; an unknown missed-session
\* id gives the empty list.
C18_BestFiveInOrder ==
    IsFind =>
        LET result == last.result
            omitted == Range(last.accepted) \ Range(result)
        IN /\ Len(result) <= 5
           /\ Len(result) = IF Len(last.accepted) < 5 THEN Len(last.accepted) ELSE 5
           /\ Range(result) \subseteq Range(last.accepted)
           /\ Cardinality(Range(result)) = Len(result)
           /\ \A j, k \in 1..Len(result) : j < k => ~RanksBefore(result[k], result[j])
           /\ \A o \in omitted : \A k \in 1..Len(result) : ~RanksBefore(o, result[k])
           /\ last.missed_session_id \notin 1..Len(session_instances) => result = <<>>

\* six candidates were accepted, one was cut, and a preferred candidate of a
\* later date is returned before an available one of an earlier date
C18_Witness ==
    /\ IsFind
    /\ Len(last.accepted) > 5
    /\ Len(last.result) = 5
    /\ \E j, k \in 1..Len(last.result) :
          /\ j < k
          /\ last.result[j].preference = "preferred"
          /\ last.result[k].preference = "available"
          /\ last.result[j].date > last.result[k].date

\* the lifecycle action that leads to a status
ActionInto(status) ==
    CASE status = "completed" -> "check_in"
      [] status = "missed" -> "auto_miss"
      [] status = "rescheduled" -> "reschedule"
      [] status = "cancelled" -> "cancel"
      [] OTHER -> "none"

\* C19: every lifecycle transition of an instance appends exactly one log
\* entry for that instance with the matching action (check_in, auto_miss,
\* reschedule, cancel), the skip/cancel transition included, and the log only
\* grows: its earlier state is a prefix of the later one.  (An instance a
\* sweep takes from pending through missed to rescheduled makes two
\* transitions.)
C19_OneEntryPerTransition ==
    [][LifecycleStep =>
         /\ Len(checkin_log') >= Len(checkin_log)
         /\ SubSeq(checkin_log', 1, Len(checkin_log)) = checkin_log
         /\ \A i \in 1..Len(session_instances) :
               LET a == session_instances[i].status
                   b == session_instances'[i].status
                   mine == {k \in 1..Len(Appended) :
                               Appended[k].session_instance_id = i}
               IN IF a = b THEN mine = {}
                  ELSE IF a = "pending" /\ b = "rescheduled"
                  THEN /\ Cardinality(mine) = 2
                       /\ Cardinality(EntriesFor(Appended, i, "auto_miss")) = 1
                       /\ Cardinality(EntriesFor(Appended, i, "reschedule")) = 1
                  ELSE /\ Cardinality(mine) = 1
                       /\ Cardinality(EntriesFor(Appended, i, ActionInto(b))) = 1]_vars

\* C20: reschedule_session with an id that names no instance fails with the
\* not-found error and changes nothing: no instance is created or updated and
\* no log entry is appended.
C20_UnknownSessionNoChange ==
    [][(/\ last'.op = "reschedule_session"
        /\ last'.missed_session_id \notin 1..Len(session_instances))
          => /\ last'.outcome = "error"
             /\ session_instances' = session_instances
             /\ checkin_log' = checkin_log]_vars

\* reschedule_session has just been refused for an id that names no instance
C20_Witness ==
    /\ last.op = "reschedule_session"
    /\ last.missed_session_id \notin 1..Len(session_instances)
    /\ last.outcome = "error"

\* ------------------------------------------------ degenerate proposals
\* the proposal of the last detect_conflicts is empty or inverted
Degenerate == IsDetect /\ ToMinutes(last.proposed_start) >= ToMinutes(last.proposed_end)

\* C23 as stated: a degenerate proposal (start = end, or start > end) is never
\* reported as overlapping a slot: the conflict list is empty.
C23_DegenerateNeverConflicts ==
    Degenerate => last.result.conflicts = <<>>

\* C23 as amended: a degenerate proposal conflicts with exactly the active
\* slots of the day that strictly contain both of its ends (slot start < the
\* earlier end, the later end < slot end), and with no slot that it only
\* touches at a boundary or lies outside of; the call returns a verdict.
C23_DegenerateConflictsInside ==
    Degenerate =>
        LET lo == ToMinutes(last.proposed_end)
            hi == ToMinutes(last.proposed_start)
        IN /\ Range(last.result.conflicts) =
                 {i \in ActiveSlotsOf(last.student_id) :
                     /\ schedule_slots[i].day_of_week = last.proposed_day
                     /\ ToMinutes(schedule_slots[i].start_time) < lo
                     /\ hi < ToMinutes(schedule_slots[i].end_time)}
           /\ last.result.verdict \in {"YES", "NO", "MAYBE"}

\* an inverted proposal inside a slot is reported as a conflict, and an empty
\* one at the boundary of two slots is not
C23_Witness ==
    /\ Degenerate
    /\ \/ /\ ToMinutes(last.proposed_start) > ToMinutes(last.proposed_end)
          /\ last.result.conflicts # <<>>
       \/ /\ last.proposed_start = last.proposed_end
          /\ last.result.conflicts = <<>>
          /\ \E i \in ActiveSlotsOf(last.student_id) :
                /\ schedule_slots[i].day_of_week = last.proposed_day
                /\ Trunc5(schedule_slots[i].end_time) = last.proposed_start

\* --------------------------------------------------- keys and timestamps
\* C26: no two instances share (schedule_slot_id, session_date), and a
\* candidate offered by the finder can always be installed: no
\* reschedule_session on a candidate, from the page or from a sweep, fails on
\* the key.
C26_CandidatesInstallable ==
    /\ \A i, j \in 1..Len(session_instances) :
          (i # j) => KeyOf(session_instances[i]) # KeyOf(session_instances[j])
    /\ last.op = "reschedule_session" => last.outcome # "raised"
    /\ last.op = "mark_missed_sessions" =>
          \A k \in 1..Len(last.steps) : last.steps[k].outcome # "raised"

\* C27: an instance has a check-in timestamp only if its status is completed,
\* in every state that check_in_session, mark_missed_sessions and
\* reschedule_session lead to.
C27_StampOnlyOnCompleted ==
    \A i \in 1..Len(session_instances) :
        session_instances[i].checked_in_at # NULL =>
            session_instances[i].status = "completed"

\* C30: in one run of mark_missed_sessions no replacement shares time, on its
\* date, with another instance of the student's active schedules, be it one
\* that existed before or a replacement installed earlier in the run.
C30_ReplacementsDisjoint ==
    last.op = "mark_missed_sessions" =>
        \A k \in 1..Len(last.rescheduled) :
            LET n == last.rescheduled[k].new_session_id
            IN \A i \in 1..Len(session_instances) :
                  (/\ i # n
                   /\ OwnerOf(session_instances, i) = OwnerOf(session_instances, n)
                   /\ schedules[session_instances[i].schedule_id].status = "active"
                   /\ session_instances[i].session_date = session_instances[n].session_date)
                     => ~ShareTime(ToMinutes(session_instances[n].start_time),
                                   ToMinutes(session_instances[n].end_time),
                                   ToMinutes(session_instances[i].start_time),
                                   ToMinutes(session_instances[i].end_time))

\* one run has installed two replacements
C30_Witness ==
    /\ last.op = "mark_missed_sessions"
    /\ Len(last.rescheduled) >= 2

\* ------------------------------------------------------------- statistics
\* the last operation is a get_checkin_stats that has returned
StatsDone == last.op = "get_checkin_stats" /\ last.pc = "done"

\* the instances get_checkin_stats is about: those of the active schedules of
\* the student it was called for, dated today or earlier
StatsScope ==
    {i \in 1..Len(session_instances) :
        /\ OwnerOf(session_instances, i) = last.student_id
        /\ schedules[session_instances[i].schedule_id].status = "active"
        /\ session_instances[i].session_date <= today}

\* C21: total counts the in-scope instances of every status, the other counts
\* those of their status, and completion_rate is completed / (total - pending),
\* 0 when total - pending is 0.
C21_CompletionRate ==
    last.op = "get_checkin_stats" =>
        LET count(st) == Cardinality({i \in StatsScope : Status(i) = st})
            den == Cardinality(StatsScope) - count("pending")
        IN /\ last.total = Cardinality(StatsScope)
           /\ last.completed = count("completed")
           /\ last.missed = count("missed")
           /\ last.rescheduled = count("rescheduled")
           /\ last.pending = count("pending")
           /\ IF den = 0 THEN last.completion_rate.num = 0
              ELSE last.completion_rate.num * den =
                       count("completed") * last.completion_rate.den

\* completed, missed, pending and cancelled sessions in one call: the rate is
\* below 1 and the pending and cancelled ones are in total
C21_Witness ==
    /\ last.op = "get_checkin_stats"
    /\ last.completed >= 1 /\ last.missed >= 1 /\ last.pending >= 1
    /\ last.completed + last.missed + last.pending + last.rescheduled < last.total
    /\ last.completion_rate = [num |-> last.completed,
                               den |-> last.total - last.pending]

\* day d has a session in scope
Bearing(d) == \E i \in StatsScope : session_instances[i].session_date = d

\* every session in scope on day d is completed
FullyCompleted(d) ==
    \A i \in StatsScope : session_instances[i].session_date = d => Status(i) = "completed"

\* C22 as stated: the streak is the number of session-bearing days before today
\* with no session-bearing day holding a non-completed session between them and
\* today; empty days are skipped however many they are.
C22_StreakSkipsEmptyDays ==
    StatsDone =>
        last.streak =
            Cardinality({d \in 0..(today - 1) :
                /\ Bearing(d)
                /\ \A e \in d..(today - 1) : Bearing(e) => FullyCompleted(e)})

\* C22 as amended: the streak is the number of session-bearing days before
\* today that the backward walk from yesterday reaches, where the walk passes
\* fully completed days and empty days less than 30 days before today, and ends
\* at the first day with a non-completed session or the first empty day 30 days
\* or more before today. Today's sessions have no part in it.
C22_StreakWithinGiveUp ==
    StatsDone =>
        last.streak =
            Cardinality({d \in 0..(today - 1) :
                /\ Bearing(d)
                /\ \A e \in d..(today - 1) :
                      IF Bearing(e) THEN FullyCompleted(e)
                      ELSE e > today - StreakGiveUp})

\* a streak over a gap of empty days, with a session today that is not
\* completed, and completed sessions beyond the give-up point left out
C22_Witness ==
    /\ StatsDone
    /\ last.streak >= 3
    /\ \E i \in StatsScope :
          session_instances[i].session_date = today /\ Status(i) = "pending"
    /\ \E d \in 0..(today - 3) : Bearing(d) /\ ~Bearing(d + 1)

\* C28: the streak loop of get_checkin_stats ends, and where it ends is a day
\* with a non-completed session, or a day more than 30 days before today
\* that it came to from an empty day.
C28_WalkTerminates ==
    /\ Walking ~> StatsDone
    /\ [](StatsDone /\ last.walked =>
            \/ Bearing(last.check_date) /\ ~FullyCompleted(last.check_date)
            \/ /\ last.check_date < today - StreakGiveUp
               /\ ~Bearing(last.check_date + 1))

\* the loop has ended on a history whose every day is fully completed
C28_Witness ==
    /\ StatsDone /\ last.walked
    /\ last.streak >= 2
    /\ \A d \in 0..(today - 1) : FullyCompleted(d)
    /\ last.check_date < today - StreakGiveUp

\* ------------------------------------------------------ interleaved sweeps
\* C24: in every state between store operations the reschedule links agree:
\* a replacement's original is rescheduled and points to it, and an original's
\* replacement points back.
C24_LinksConsistent ==
    \A i \in 1..Len(session_instances) :
        /\ session_instances[i].rescheduled_from # NULL =>
              /\ Status(session_instances[i].rescheduled_from) = "rescheduled"
              /\ session_instances[session_instances[i].rescheduled_from].rescheduled_to = i
        /\ session_instances[i].rescheduled_to # NULL =>
              session_instances[session_instances[i].rescheduled_to].rescheduled_from = i

\* two replacements of one original
DoubleReplacement ==
    \E n1, n2 \in 1..Len(session_instances) :
        /\ n1 # n2
        /\ session_instances[n1].rescheduled_from # NULL
        /\ session_instances[n1].rescheduled_from = session_instances[n2].rescheduled_from

\* C25: two replacements with the same rescheduled_from exist only if the two
\* sweeps overlapped, one starting before the other had returned; sweeps run
\* one after the other never produce them.
C25_DoubleOnlyInterleaved ==
    (last.op = "sweeps" /\ DoubleReplacement) => last.overlapped

\* both sweeps have returned, each having rescheduled the same instance, whose
\* rescheduled_to names one of its two replacements
C25_Witness ==
    /\ At(1, "done") /\ At(2, "done")
    /\ \E n1, n2 \in 1..Len(session_instances) :
          /\ n1 # n2
          /\ session_instances[n1].rescheduled_from # NULL
          /\ session_instances[n1].rescheduled_from = session_instances[n2].rescheduled_from
          /\ session_instances[session_instances[n1].rescheduled_from].rescheduled_to = n1
          /\ \E k1 \in 1..Len(last.calls[1].rescheduled),
                k2 \in 1..Len(last.calls[2].rescheduled) :
                {last.calls[1].rescheduled[k1].new_session_id,
                 last.calls[2].rescheduled[k2].new_session_id} = {n1, n2}

\* C29: a sweep that starts when the student's other sweep has returned, on the
\* same day, selects nothing: it returns empty 'missed' and 'rescheduled'
\* lists, changes no instance and appends no log entry.
C29_SecondSweepEmpty ==
    [][\A p \in Sweepers :
          (/\ At(p, "idle")
           /\ last'.calls[p].pc # "idle"
           /\ \E q \in Sweepers \ {p} : At(q, "done"))
          => /\ last'.calls[p].pc = "done"
             /\ last'.calls[p].missed = <<>>
             /\ last'.calls[p].rescheduled = <<>>
             /\ session_instances' = session_instances
             /\ checkin_log' = checkin_log]_vars

\* the second sweep has returned empty after a first that marked two
\* instances missed and installed a replacement
C29_Witness ==
    /\ last.op = "sweeps" /\ ~last.overlapped
    /\ \E p \in Sweepers, q \in Sweepers :
          /\ p # q
          /\ At(p, "done") /\ Len(last.calls[p].missed) = 2
          /\ last.calls[p].rescheduled # <<>>
          /\ At(q, "done") /\ last.calls[q].missed = <<>>

====
